---------------------------- MODULE Spec2Model ----------------------------
(***************************************************************************)
(* A model of the graph builder's leaf components of kro:                  *)
(*   - the naming-convention validation of a ResourceGroup                 *)
(*     (internal/graph/validation.go),                                     *)
(*   - the structure validation of a Kubernetes object (same file),        *)
(*   - the expression extractor ParseResource                              *)
(*     (internal/graph/parser/parser.go),                                  *)
(*   - the CEL environment options (package cel),                          *)
(*   - the launcher's wiring of contexts (package main).                   *)
(* Strings of the program are sequences of one-character strings, so that  *)
(* regular expressions, trimming, quoting and path building are computed.  *)
(***************************************************************************)
EXTENDS Integers, Sequences, FiniteSets, TLC

VARIABLES
    \* validateResourceGroupNamingConventions
    rgKind,         \* rg.Spec.Schema.Kind
    rgResources,    \* the ids of rg.Spec.Resources, in declaration order
    vpc,            \* position in the validation: "kind", "ids", "done"
    vidx,           \* index of the resource the loop of validateResourceIDs is at
    seen,           \* the map seen of validateResourceIDs
    verr,           \* the error returned
    \* validateKubernetesObjectStructure
    obj,            \* the object handed to validateKubernetesObjectStructure
    opc,            \* position in it: "apiVersion", "kind", "metadata", "done"
    oerr,           \* the error returned
    \* ParseResource
    resource,       \* the document handed to ParseResource
    schema,         \* the *spec.Schema handed to ParseResource (a pointer: <<>> is nil)
    calls,          \* the calls of ParseResource so far: the schema each was
                    \* given, and the descriptors and error it returned
    \* path construction
    keysA, pathA,   \* a sequence of field names / array indices, and its path string
    keysB, pathB,   \* a second one
    \* DefaultEnvironment
    options,        \* the options passed to DefaultEnvironment
    optIdx,         \* the option the loop is at
    opts,           \* the envOptions being filled
    declarations,   \* the declarations handed to cel.NewEnv
    epc,            \* "options", "declare", "done"
    \* main
    mainPc,         \* position of main
    sigCtx,         \* the context of ctrl.SetupSignalHandler: "none", "live", "cancelled"
    dcCtx,          \* the context handed to dc.Run: "none", "live", "cancelled"
    dcPc,           \* the goroutine of dc.Run
    mgrPc,          \* the goroutine of mgr.Start
    kinds,          \* kinds registered with the dynamic controller
    signals         \* termination signals delivered so far

namingVars == <<rgKind, rgResources, vpc, vidx, seen, verr>>
objectVars == <<obj, opc, oerr>>
parseVars  == <<resource, schema, calls>>
pathVars   == <<keysA, pathA, keysB, pathB>>
envVars    == <<options, optIdx, opts, declarations, epc>>
mainVars   == <<mainPc, sigCtx, dcCtx, dcPc, mgrPc, kinds, signals>>
vars       == <<namingVars, objectVars, parseVars, pathVars, envVars, mainVars>>

\* the variables of the components other than the one that takes a step
notNamingVars == <<objectVars, parseVars, pathVars, envVars, mainVars>>
notParseVars  == <<namingVars, objectVars, pathVars, envVars, mainVars>>
notPathVars   == <<namingVars, objectVars, parseVars, envVars, mainVars>>
notEnvVars    == <<namingVars, objectVars, parseVars, pathVars, mainVars>>
notObjectVars == <<namingVars, parseVars, pathVars, envVars, mainVars>>
notMainVars   == <<namingVars, objectVars, parseVars, pathVars, envVars>>

(***************************************************************************)
(* Bounds of the model.                                                    *)
(***************************************************************************)
MaxResources == 2     \* resources of a ResourceGroup
MaxItems     == 2     \* items of a sequence of a document
MaxCalls     == 2     \* calls of ParseResource on the same document and schema
MaxPathLen   == 2     \* field names / indices leading to a node
MaxOptions   == 3     \* options passed to DefaultEnvironment
MaxSignals   == 2     \* termination signals delivered to the process

(***************************************************************************)
(* Characters.                                                             *)
(***************************************************************************)
Lower == {"a","b","c","d","e","f","g","h","i","j","k","l","m",
          "n","o","p","q","r","s","t","u","v","w","x","y","z"}
Upper == {"A","B","C","D","E","F","G","H","I","J","K","L","M",
          "N","O","P","Q","R","S","T","U","V","W","X","Y","Z"}
Digit == {"0","1","2","3","4","5","6","7","8","9"}

(***************************************************************************)
(* internal/graph/validation.go                                            *)
(***************************************************************************)
\* ^[a-z][a-zA-Z0-9]*$
lowerCamelCaseRegex(s) ==
    /\ Len(s) >= 1
    /\ s[1] \in Lower
    /\ \A i \in 2..Len(s) : s[i] \in Lower \cup Upper \cup Digit

\* ^[A-Z][a-zA-Z0-9]*$
upperCamelCaseRegex(s) ==
    /\ Len(s) >= 1
    /\ s[1] \in Upper
    /\ \A i \in 2..Len(s) : s[i] \in Lower \cup Upper \cup Digit

reservedKeyWords == <<
    <<"a","p","i","V","e","r","s","i","o","n">>,
    <<"c","o","n","t","e","x","t">>,
    <<"d","e","p","e","n","d","e","n","c","y">>,
    <<"d","e","p","e","n","d","e","n","c","i","e","s">>,
    <<"e","x","t","e","r","n","a","l","R","e","f">>,
    <<"e","x","t","e","r","n","a","l","R","e","f","e","r","e","n","c","e">>,
    <<"e","x","t","e","r","n","a","l","R","e","f","s">>,
    <<"e","x","t","e","r","n","a","l","R","e","f","e","r","e","n","c","e","s">>,
    <<"g","r","a","p","h">>,
    <<"i","n","s","t","a","n","c","e">>,
    <<"k","i","n","d">>,
    <<"m","e","t","a","d","a","t","a">>,
    <<"n","a","m","e","s","p","a","c","e">>,
    <<"o","b","j","e","c","t">>,
    <<"r","e","s","o","u","r","c","e">>,
    <<"r","e","s","o","u","r","c","e","g","r","o","u","p">>,
    <<"r","e","s","o","u","r","c","e","s">>,
    <<"r","u","n","t","i","m","e">>,
    <<"s","e","r","v","i","c","e","A","c","c","o","u","n","t","N","a","m","e">>,
    <<"s","p","e","c">>,
    <<"s","t","a","t","u","s">>,
    <<"k","r","o">>,
    <<"v","a","r","i","a","b","l","e","s">>,
    <<"v","a","r","s">>,
    <<"v","e","r","s","i","o","n">> >>

isValidResourceID(id) == lowerCamelCaseRegex(id)

isValidKindName(name) == upperCamelCaseRegex(name)

\* isKROReservedWord with a loop that stops one word early
isKROReservedWordShort(word) ==
    \E i \in 1..(Len(reservedKeyWords) - 1) : reservedKeyWords[i] = word

\* isKROReservedWord
isKROReservedWord(word) ==
    \E i \in 1..Len(reservedKeyWords) : reservedKeyWords[i] = word

\* An error of the validation: what the message says, the name it quotes, and
\* whether it carries the prefix ErrNamingConvention.
NoNamingError == [msg |-> "nil", name |-> <<>>, prefix |-> FALSE]
NamingError(m, n) == [msg |-> m, name |-> n, prefix |-> TRUE]

\* the body of the loop of validateResourceIDs without the look-up in seen
checkResourceIDNoDuplicates(id, seenIDs) ==
    IF isKROReservedWord(id)
    THEN NamingError("id %s is a reserved keyword in KRO", id)
    ELSE IF ~isValidResourceID(id)
    THEN NamingError("id %s is not a valid KRO resource id: must be lower camelCase", id)
    ELSE NoNamingError

\* The body of the loop of validateResourceIDs, for the resource with this id
\* when the ids in seenIDs came before it.
checkResourceID(id, seenIDs) ==
    IF isKROReservedWord(id)
    THEN NamingError("id %s is a reserved keyword in KRO", id)
    ELSE IF ~isValidResourceID(id)
    THEN NamingError("id %s is not a valid KRO resource id: must be lower camelCase", id)
    ELSE IF id \in seenIDs
    THEN NamingError("found duplicate resource IDs %s", id)
    ELSE NoNamingError

\* The kind names and resource ids the model submits.
KindNames == { <<"W","e","b","A","p","p">>, <<"w","e","b","A","p","p">>, <<"W","e","b","-","A","p","p">>, <<"W">>, <<>> }

OtherIDs == { <<"d","b">>, <<"w","e","b","S","e","r","v","e","r","1">>, <<"D","b">>, <<"m","y","-","d","b">>, <<"1","d","b">>, <<>> }

ReservedIDs == { reservedKeyWords[i] : i \in 1..Len(reservedKeyWords) }

\* The reserved identifiers as the interface description lists them.
ListedReservedWords == {
    <<"a","p","i","V","e","r","s","i","o","n">>, <<"c","o","n","t","e","x","t">>, <<"d","e","p","e","n","d","e","n","c","y">>, <<"d","e","p","e","n","d","e","n","c","i","e","s">>, <<"e","x","t","e","r","n","a","l","R","e","f">>,
    <<"e","x","t","e","r","n","a","l","R","e","f","e","r","e","n","c","e">>, <<"e","x","t","e","r","n","a","l","R","e","f","s">>, <<"e","x","t","e","r","n","a","l","R","e","f","e","r","e","n","c","e","s">>, <<"g","r","a","p","h">>,
    <<"i","n","s","t","a","n","c","e">>, <<"k","i","n","d">>, <<"m","e","t","a","d","a","t","a">>, <<"n","a","m","e","s","p","a","c","e">>, <<"o","b","j","e","c","t">>, <<"r","e","s","o","u","r","c","e">>,
    <<"r","e","s","o","u","r","c","e","g","r","o","u","p">>, <<"r","e","s","o","u","r","c","e","s">>, <<"r","u","n","t","i","m","e">>, <<"s","e","r","v","i","c","e","A","c","c","o","u","n","t","N","a","m","e">>, <<"s","p","e","c">>,
    <<"s","t","a","t","u","s">>, <<"k","r","o">>, <<"v","a","r","i","a","b","l","e","s">>, <<"v","a","r","s">>, <<"v","e","r","s","i","o","n">> }

ResourceIDs == ReservedIDs \cup ListedReservedWords \cup OtherIDs

RECURSIVE SeqsUpTo(_, _)
SeqsUpTo(S, n) ==
    IF n = 0 THEN { <<>> }
    ELSE LET shorter == SeqsUpTo(S, n - 1)
         IN  shorter \cup { Append(q, x) : q \in { r \in shorter : Len(r) = n - 1 }, x \in S }

NamingInit ==
    /\ rgKind \in KindNames
    /\ rgResources \in SeqsUpTo(ResourceIDs, MaxResources)
    /\ vpc = "kind"
    /\ vidx = 1
    /\ seen = {}
    /\ verr = NoNamingError

NamingIdle ==
    /\ rgKind = <<>>
    /\ rgResources = <<>>
    /\ vpc = "idle"
    /\ vidx = 1
    /\ seen = {}
    /\ verr = NoNamingError

\* validateResourceGroupNamingConventions, up to the call of validateResourceIDs
ValidateKind ==
    /\ vpc = "kind"
    /\ IF ~isValidKindName(rgKind)
       THEN /\ verr' = NamingError("kind '%s' is not a valid KRO kind name: must be UpperCamelCase", rgKind)
            /\ vpc' = "done"
       ELSE /\ verr' = verr
            /\ vpc' = "ids"
    /\ UNCHANGED <<rgKind, rgResources, vidx, seen>>
    /\ UNCHANGED notNamingVars

\* one iteration of the loop of validateResourceIDs
ValidateResourceID ==
    /\ vpc = "ids"
    /\ vidx <= Len(rgResources)
    /\ LET e == checkResourceID(rgResources[vidx], seen)
       IN  IF e # NoNamingError
           THEN /\ verr' = e
                /\ vpc' = "done"
                /\ UNCHANGED <<vidx, seen>>
           ELSE /\ seen' = seen \cup {rgResources[vidx]}
                /\ vidx' = vidx + 1
                /\ UNCHANGED <<verr, vpc>>
    /\ UNCHANGED <<rgKind, rgResources>>
    /\ UNCHANGED notNamingVars

\* the loop of validateResourceIDs ends: both functions return nil
ValidateReturn ==
    /\ vpc = "ids"
    /\ vidx > Len(rgResources)
    /\ verr' = NoNamingError
    /\ vpc' = "done"
    /\ UNCHANGED <<rgKind, rgResources, vidx, seen>>
    /\ UNCHANGED notNamingVars

NamingNext ==
    \/ ValidateKind
    \/ ValidateResourceID
    \/ ValidateReturn

(***************************************************************************)
(* internal/graph/parser/parser.go: documents and schemas                  *)
(*                                                                         *)
(* A value of a document is a record: t is its Go dynamic type ("map",     *)
(* "array", "string", "nil", "int64", "float64", "bool"), s the text of a  *)
(* string, items the elements of a []interface{}, fields the entries of a  *)
(* map[string]interface{}.                                                 *)
(*                                                                         *)
(* A spec.Schema is a record of the fields the parser reads.  A pointer is *)
(* a sequence: <<>> is nil and <<x>> points to x.                          *)
(*   Type        schema.Type, a sequence of type names                     *)
(*   OneOf       for each schema of schema.OneOf, its Type                 *)
(*   AP          schema.AdditionalProperties: a pointer to                 *)
(*               [Allows, Schema], Schema a pointer to a schema            *)
(*   Properties  schema.Properties: field name -> schema (held by value)   *)
(*   Items       schema.Items: a pointer to [Schema], a pointer to a schema*)
(*   Extensions  schema.VendorExtensible.Extensions: name -> bool          *)
(***************************************************************************)
EmptyMap == [k \in {} |-> <<>>]

Value(t, s, items, fields) == [t |-> t, s |-> s, items |-> items, fields |-> fields]
NilValue      == Value("nil", <<>>, <<>>, EmptyMap)
Scalar(t)     == Value(t, <<>>, <<>>, EmptyMap)
String(s)     == Value("string", s, <<>>, EmptyMap)
Array(items)  == Value("array", <<>>, items, EmptyMap)
Map(fields)   == Value("map", <<>>, <<>>, fields)

SchemaOf(type, oneOf, ap, props, items, ext) ==
    [Type |-> type, OneOf |-> oneOf, AP |-> ap, Properties |-> props,
     Items |-> items, Extensions |-> ext]

\* &spec.Schema{}
EmptySchema == SchemaOf(<<>>, <<>>, <<>>, EmptyMap, <<>>, EmptyMap)

xKubernetesPreserveUnknownFields == "x-kubernetes-preserve-unknown-fields"

\* An error: the format of its message and the path the message cites
\* (<<>> when the format cites none).
NoError == [msg |-> "nil", path |-> <<>>]
Error(m, p) == [msg |-> m, path |-> p]

\* What a parse function returns, with the schema its pointer points to after
\* the call.
Return(fds, err, schemaPtr) == [fds |-> fds, err |-> err, schema |-> schemaPtr]

\* variable.FieldDescriptor
FieldDescriptor(exprs, type, schemaPtr, path, standalone) ==
    [Expressions |-> exprs, ExpectedType |-> type, ExpectedSchema |-> schemaPtr,
     Path |-> path, StandaloneExpression |-> standalone]

(***************************************************************************)
(* Strings                                                                 *)
(***************************************************************************)
exprStart == <<"$","{">>
exprEnd   == <<"}">>

HasPrefixAt(str, i, p) ==
    /\ i + Len(p) - 1 <= Len(str)
    /\ SubSeq(str, i, i + Len(p) - 1) = p

HasPrefix(str, p) == HasPrefixAt(str, 1, p)
HasSuffix(str, p) == Len(p) <= Len(str) /\ SubSeq(str, Len(str) - Len(p) + 1, Len(str)) = p

\* strings.Index(str[start:], p) + start, as a 1-based position; 0 when absent
IndexFrom(str, start, p) ==
    LET hits == { i \in start..Len(str) : HasPrefixAt(str, i, p) }
    IN  IF hits = {} THEN 0 ELSE CHOOSE i \in hits : \A j \in hits : i <= j

\* strings.Contains
Contains(str, p) == IndexFrom(str, 1, p) # 0

\* strings.TrimLeft / strings.TrimRight / strings.Trim with a cutset
RECURSIVE TrimLeft(_, _)
TrimLeft(str, cutset) ==
    IF str # <<>> /\ Head(str) \in cutset THEN TrimLeft(Tail(str), cutset) ELSE str

RECURSIVE TrimRight(_, _)
TrimRight(str, cutset) ==
    IF str # <<>> /\ str[Len(str)] \in cutset
    THEN TrimRight(SubSeq(str, 1, Len(str) - 1), cutset)
    ELSE str

Trim(str, cutset) == TrimRight(TrimLeft(str, cutset), cutset)

\* The scan of extractExpressions for the brace closing the expression opened
\* before endIdx: where it stopped, the brackets still open, and whether a
\* second "${" was met.
RECURSIVE scanExpression(_, _, _)
scanExpression(str, endIdx, bracketCount) ==
    IF endIdx > Len(str)
    THEN [idx |-> endIdx, count |-> bracketCount, nested |-> FALSE]
    ELSE IF HasPrefixAt(str, endIdx, exprStart)
    THEN [idx |-> endIdx, count |-> bracketCount, nested |-> TRUE]
    ELSE IF str[endIdx] = "{"
    THEN scanExpression(str, endIdx + 1, bracketCount + 1)
    ELSE IF str[endIdx] = "}"
    THEN IF bracketCount - 1 = 0
         THEN [idx |-> endIdx, count |-> 0, nested |-> FALSE]
         ELSE scanExpression(str, endIdx + 1, bracketCount - 1)
    ELSE scanExpression(str, endIdx + 1, bracketCount)

RECURSIVE extractFrom(_, _, _)
extractFrom(str, start, expressions) ==
    LET startIdx == IndexFrom(str, start, exprStart)
    IN  IF start > Len(str) \/ startIdx = 0
        THEN [expressions |-> expressions, err |-> NoError]
        ELSE LET sc == scanExpression(str, startIdx + Len(exprStart), 1)
             IN  IF sc.nested
                 THEN [expressions |-> <<>>, err |-> Error("nested expressions are not allowed", <<>>)]
                 ELSE IF sc.count # 0
                 THEN extractFrom(str, start + 1, expressions)
                 ELSE extractFrom(str, sc.idx + 1,
                          Append(expressions, SubSeq(str, startIdx + Len(exprStart), sc.idx - 1)))

\* extractExpressions: the expressions ${...} of a string, in order; an
\* expression opened inside another is a parse error.
extractExpressions(str) == extractFrom(str, 1, <<>>)

\* isStandaloneExpression: the whole string is one expression ${...}
isStandaloneExpression(str) ==
    LET ex == extractExpressions(str)
    IN  [ok  |-> /\ ex.err = NoError
                 /\ Len(ex.expressions) = 1
                 /\ HasPrefix(str, exprStart)
                 /\ HasSuffix(str, exprEnd),
         err |-> ex.err]

\* fmt.Sprintf("%d", i) for i >= 0
DigitChars == <<"0","1","2","3","4","5","6","7","8","9">>

RECURSIVE FormatInt(_)
FormatInt(i) ==
    IF i < 10 THEN <<DigitChars[i + 1]>>
    ELSE Append(FormatInt(i \div 10), DigitChars[(i % 10) + 1])

\* fmt.Sprintf("%q", s) for printable ASCII: double quotes around the text,
\* a backslash before every double quote and backslash
RECURSIVE Escape(_)
Escape(str) ==
    IF str = <<>> THEN <<>>
    ELSE (IF Head(str) \in {"\"", "\\"} THEN <<"\\", Head(str)>> ELSE <<Head(str)>>)
         \o Escape(Tail(str))

Quote(str) == <<"\"">> \o Escape(str) \o <<"\"">>

joinPathAndFieldName(path, fieldName) ==
    IF fieldName = <<>> \/ Contains(fieldName, <<".">>)
    THEN path \o <<"[">> \o Quote(fieldName) \o <<"]">>
    ELSE IF path = <<>>
    THEN fieldName
    ELSE path \o <<".">> \o fieldName

\* fmt.Sprintf("%s[%d]", path, i) of parseArray; i counts from 0
itemPath(path, i) == path \o <<"[">> \o FormatInt(i) \o <<"]">>


(***************************************************************************)
(* internal/graph/validation.go: validateKubernetesObjectStructure         *)
(***************************************************************************)
\* \d+
AllDigits(str) == Len(str) >= 1 /\ \A i \in 1..Len(str) : str[i] \in Digit

\* ^v\d+(?:(?:alpha|beta)\d+)?  without the closing anchor: some prefix of
\* the text matches
kubernetesVersionRegexNoEnd(str) ==
    /\ Len(str) >= 2
    /\ str[1] = "v"
    /\ str[2] \in Digit

\* kubernetesVersionRegex.MatchString: ^v\d+(?:(?:alpha|beta)\d+)?$
kubernetesVersionRegex(str) ==
    /\ Len(str) >= 2
    /\ str[1] = "v"
    /\ LET rest == Tail(str)
       IN  \/ AllDigits(rest)
           \/ \E i \in 1..Len(rest) : \E stage \in { <<"a","l","p","h","a">>, <<"b","e","t","a">> } :
                 /\ AllDigits(SubSeq(rest, 1, i))
                 /\ HasPrefixAt(rest, i + 1, stage)
                 /\ AllDigits(SubSeq(rest, i + 1 + Len(stage), Len(rest)))

\* validateKubernetesVersion: the version is valid (the error is nil)
validateKubernetesVersion(version) == kubernetesVersionRegex(version)

\* strings.Count(str, "/")
Count(str, ch) == Cardinality({ i \in 1..Len(str) : str[i] = ch })

\* schema.ParseGroupVersion of k8s.io/apimachinery: "" and "/" are the empty
\* group version, a text without "/" is a version, a text with one "/" is
\* group/version, more than one "/" is an error.
ParseGroupVersion(gv) ==
    IF Len(gv) = 0 \/ gv = <<"/">>
    THEN [Group |-> <<>>, Version |-> <<>>, err |-> FALSE]
    ELSE CASE Count(gv, "/") = 0 -> [Group |-> <<>>, Version |-> gv, err |-> FALSE]
           [] Count(gv, "/") = 1 ->
                LET i == IndexFrom(gv, 1, <<"/">>)
                IN  [Group |-> SubSeq(gv, 1, i - 1), Version |-> SubSeq(gv, i + 1, Len(gv)),
                     err |-> FALSE]
           [] OTHER -> [Group |-> <<>>, Version |-> <<>>, err |-> TRUE]

\* the statements on obj["apiVersion"]: the error, "nil" when there is none
checkAPIVersion(o) ==
    IF "apiVersion" \notin DOMAIN o
    THEN "apiVersion field not found"
    ELSE IF o["apiVersion"].t # "string"
    THEN "apiVersion field is not a string"
    ELSE LET groupVersion == ParseGroupVersion(o["apiVersion"].s)
         IN  IF groupVersion.err
             THEN "apiVersion field is not a valid Kubernetes group version: %w"
             ELSE IF groupVersion.Version # <<>> /\ ~validateKubernetesVersion(groupVersion.Version)
             THEN "apiVersion field does not have a valid version: %w"
             ELSE "nil"

\* the statements on obj["kind"]
checkKind(o) ==
    IF "kind" \notin DOMAIN o
    THEN "kind field not found"
    ELSE IF o["kind"].t # "string"
    THEN "kind field is not a string"
    ELSE "nil"

\* the statements on obj["metadata"]
checkMetadata(o) ==
    IF "metadata" \notin DOMAIN o
    THEN "metadata field not found"
    ELSE IF o["metadata"].t # "map"
    THEN "metadata field is not a map"
    ELSE "nil"

\* The objects validateKubernetesObjectStructure is called with.
APIVersions == {
    <<>>, <<"/">>, <<"v","1">>, <<"a","p","p","s","/","v","1">>, <<"a","p","p","s","/","v","1","b","e","t","a","1">>, <<"a","p","p","s","/","v","1","a","l","p","h","a","1">>,
    <<"a","p","p","s","/","v","1","0","b","e","t","a","1","2">>, <<"a","p","p","s","/">>, <<"/","v","1">>, <<"a","/","b","/","v","1">>, <<"a","/","/">>, <<"a","p","p","s","/","v","1","g","a","m","m","a","1">>,
    <<"a","p","p","s","/","v","1","b","e","t","a">>, <<"a","p","p","s","/","1">>, <<"V","1">>, <<"v">>, <<"v","1","b","e","t","a","1","x">>, <<"a","p","p","s","/","v","1","b","e","t","a","1","x">>, <<"a","p","p","s","/","v","1","a","l","p","h","a","b","e","t","a","1">>,
    <<"x","v","1">>, <<"a","p","p","s","/","v","a","l","p","h","a","1">> }

APIVersionValues ==
    { String(s) : s \in APIVersions } \cup { NilValue, Scalar("int64"), Map(EmptyMap) }

KindValues ==
    { String(<<"D","e","p","l","o","y","m","e","n","t">>), String(<<>>), NilValue, Scalar("int64") }

MetadataValues ==
    { Map(EmptyMap), Map([k \in { <<"n","a","m","e">> } |-> String(<<"a">>)]), NilValue,
      String(<<"a">>), Array(<<>>) }

ObjectFields == {"apiVersion", "kind", "metadata"}

Objects ==
    UNION { { o \in [K -> APIVersionValues \cup KindValues \cup MetadataValues] :
                /\ "apiVersion" \in K => o["apiVersion"] \in APIVersionValues
                /\ "kind" \in K => o["kind"] \in KindValues
                /\ "metadata" \in K => o["metadata"] \in MetadataValues }
            : K \in SUBSET ObjectFields }

ObjectInit ==
    /\ obj \in Objects
    /\ opc = "apiVersion"
    /\ oerr = "nil"

ObjectIdle ==
    /\ obj = EmptyMap
    /\ opc = "idle"
    /\ oerr = "nil"

\* validateKubernetesObjectStructure up to the check of the version
CheckAPIVersion ==
    /\ opc = "apiVersion"
    /\ oerr' = checkAPIVersion(obj)
    /\ opc' = IF checkAPIVersion(obj) = "nil" THEN "kind" ELSE "done"
    /\ UNCHANGED obj
    /\ UNCHANGED notObjectVars

CheckKind ==
    /\ opc = "kind"
    /\ oerr' = checkKind(obj)
    /\ opc' = IF checkKind(obj) = "nil" THEN "metadata" ELSE "done"
    /\ UNCHANGED obj
    /\ UNCHANGED notObjectVars

\* the check of metadata, and the return
CheckMetadata ==
    /\ opc = "metadata"
    /\ oerr' = checkMetadata(obj)
    /\ opc' = "done"
    /\ UNCHANGED obj
    /\ UNCHANGED notObjectVars

ObjectNext == CheckAPIVersion \/ CheckKind \/ CheckMetadata
(***************************************************************************)
(* internal/graph/parser/parser.go: the extractor                          *)
(***************************************************************************)
\* validateSchema: the error, and the schema behind the pointer afterwards (the
\* function assigns schema.Type when a union stands in for the type).  A first
\* alternative of the union without a type makes OneOf[0].Type[0] panic.
validateSchema(schemaPtr, path) ==
    IF schemaPtr = <<>>
    THEN [err |-> Error("schema is nil for path %s", path), schema |-> schemaPtr]
    ELSE LET s == schemaPtr[1]
         IN  IF Len(s.Type) # 1
             THEN IF Len(s.OneOf) > 0
                  THEN IF Len(s.OneOf[1]) = 0
                       THEN [err |-> Error("panic: index out of range", <<>>),
                             schema |-> schemaPtr]
                       ELSE [err |-> NoError,
                             schema |-> <<[s EXCEPT !.Type = <<s.OneOf[1][1]>>]>>]
                  ELSE [err |-> Error("found schema type that is not a single type: %v", <<>>),
                        schema |-> schemaPtr]
             ELSE [err |-> NoError, schema |-> schemaPtr]

getExpectedType(s) ==
    IF s.Type[1] # ""
    THEN s.Type[1]
    ELSE IF s.AP # <<>> /\ s.AP[1].Allows
    THEN "any"
    ELSE ""

\* getFieldSchema: the error, the pointer returned, and where it points:
\* "copy" is the address of a copy of schema.Properties[field], "shared" is
\* schema.AdditionalProperties.Schema itself, "fresh" a new empty schema.
getFieldSchema(s, field) ==
    IF field \in DOMAIN s.Properties
    THEN [err |-> NoError, schema |-> <<s.Properties[field]>>, origin |-> "copy"]
    ELSE IF s.AP # <<>> /\ s.AP[1].Schema # <<>>
    THEN [err |-> NoError, schema |-> s.AP[1].Schema, origin |-> "shared"]
    ELSE IF s.AP # <<>> /\ s.AP[1].Allows
    THEN [err |-> NoError, schema |-> <<EmptySchema>>, origin |-> "fresh"]
    ELSE [err |-> Error("schema not found for field %s", field), schema |-> <<>>,
          origin |-> "none"]

\* getArrayItemSchema (its second branch repeats the condition of the first
\* and is never taken)
getArrayItemSchema(s, path) ==
    IF s.Items # <<>> /\ s.Items[1].Schema # <<>>
    THEN [err |-> NoError, schema |-> s.Items[1].Schema]
    ELSE [err |-> Error("invalid array schema for path %s: neither Items.Schema nor Properties are defined", path),
          schema |-> <<>>]

isInteger(v) == v.t \in {"int", "int64", "int32"}

\* The schema behind a pointer once the parse of one of its fields has
\* returned: a field schema taken from Properties was a copy, so the Type
\* assigned to the copy is lost and what the copy shares (its maps and
\* pointers) is kept; AdditionalProperties.Schema is the schema itself.
afterField(schemaPtr, field, origin, fieldSchemaPtr) ==
    LET s == schemaPtr[1]
    IN  CASE origin = "copy" ->
               <<[s EXCEPT !.Properties[field] =
                     [fieldSchemaPtr[1] EXCEPT !.Type = s.Properties[field].Type]]>>
          [] origin = "shared" ->
               <<[s EXCEPT !.AP = <<[s.AP[1] EXCEPT !.Schema = fieldSchemaPtr]>>]>>
          [] OTHER -> schemaPtr

afterItem(schemaPtr, itemSchemaPtr) ==
    <<[schemaPtr[1] EXCEPT !.Items = <<[schemaPtr[1].Items[1] EXCEPT !.Schema = itemSchemaPtr]>>]>>

\* parseString with the test of the expected type moved before the test for a
\* standalone expression
parseStringTypeFirst(field, schemaPtr, path, expectedType) ==
    LET st == isStandaloneExpression(field)
        ex == extractExpressions(field)
    IN  IF st.err # NoError
        THEN Return(<<>>, st.err, schemaPtr)
        ELSE IF expectedType # "string" /\ expectedType # "any"
        THEN Return(<<>>, Error("expected string type or AdditionalProperties for path %s, got %v", path), schemaPtr)
        ELSE IF st.ok
        THEN Return(<<FieldDescriptor(<<Trim(field, {"$", "{", "}"})>>, expectedType,
                                      schemaPtr, path, TRUE)>>,
                    NoError, schemaPtr)
        ELSE IF Len(ex.expressions) > 0
        THEN Return(<<FieldDescriptor(ex.expressions, expectedType, <<>>, path, FALSE)>>,
                    NoError, schemaPtr)
        ELSE Return(<<>>, NoError, schemaPtr)

\* parseString without the test of the expected type for embedded expressions
parseStringAnyType(field, schemaPtr, path, expectedType) ==
    LET st == isStandaloneExpression(field)
        ex == extractExpressions(field)
    IN  IF st.err # NoError
        THEN Return(<<>>, st.err, schemaPtr)
        ELSE IF st.ok
        THEN Return(<<FieldDescriptor(<<Trim(field, {"$", "{", "}"})>>, expectedType,
                                      schemaPtr, path, TRUE)>>,
                    NoError, schemaPtr)
        ELSE IF Len(ex.expressions) > 0
        THEN Return(<<FieldDescriptor(ex.expressions, expectedType, <<>>, path, FALSE)>>,
                    NoError, schemaPtr)
        ELSE IF expectedType # "string" /\ expectedType # "any"
        THEN Return(<<>>, Error("expected string type or AdditionalProperties for path %s, got %v", path), schemaPtr)
        ELSE Return(<<>>, NoError, schemaPtr)

\* parseString
parseString(field, schemaPtr, path, expectedType) ==
    LET st == isStandaloneExpression(field)
    IN  IF st.err # NoError
        THEN Return(<<>>, st.err, schemaPtr)
        ELSE IF st.ok
        THEN Return(<<FieldDescriptor(<<Trim(field, {"$", "{", "}"})>>, expectedType,
                                      schemaPtr, path, TRUE)>>,
                    NoError, schemaPtr)
        ELSE IF expectedType # "string" /\ expectedType # "any"
        THEN Return(<<>>, Error("expected string type or AdditionalProperties for path %s, got %v", path), schemaPtr)
        ELSE LET ex == extractExpressions(field)
             IN  IF ex.err # NoError
                 THEN Return(<<>>, ex.err, schemaPtr)
                 ELSE IF Len(ex.expressions) > 0
                 THEN Return(<<FieldDescriptor(ex.expressions, expectedType, <<>>, path, FALSE)>>,
                             NoError, schemaPtr)
                 ELSE Return(<<>>, NoError, schemaPtr)

parseScalarTypes(field, schemaPtr, path, expectedType) ==
    IF expectedType = "any"
    THEN Return(<<>>, NoError, schemaPtr)
    ELSE CASE expectedType = "number" ->
                IF field.t # "float64"
                THEN Return(<<>>, Error("expected number type for path %s, got %T", path), schemaPtr)
                ELSE Return(<<>>, NoError, schemaPtr)
           [] expectedType = "integer" ->
                IF ~isInteger(field)
                THEN Return(<<>>, Error("expected integer type for path %s, got %T", path), schemaPtr)
                ELSE Return(<<>>, NoError, schemaPtr)
           [] expectedType = "boolean" ->
                IF field.t # "bool"
                THEN Return(<<>>, Error("expected boolean type for path %s, got %T", path), schemaPtr)
                ELSE Return(<<>>, NoError, schemaPtr)
           [] OTHER ->
                Return(<<>>, Error("unexpected type for path %s: %T", path), schemaPtr)

\* parseResource and the functions it calls return the SET of outcomes the
\* call can have: Go visits the entries of a map in an order that differs
\* from run to run, so parseObject has one outcome per order of visit.
RECURSIVE parseResource(_, _, _)
RECURSIVE parseObjectFields(_, _, _, _, _)
RECURSIVE parseArrayItems(_, _, _, _, _)

\* parseObject without the look-up of the vendor extensions
parseObjectNoExtensions(field, schemaPtr, path, expectedType) ==
    IF expectedType # "object" /\ (schemaPtr[1].AP = <<>> \/ ~schemaPtr[1].AP[1].Allows)
    THEN { Return(<<>>, Error("expected object type or AdditionalProperties allowed for path %s, got %v", path), schemaPtr) }
    ELSE parseObjectFields(field, DOMAIN field, schemaPtr, path, <<>>)

\* parseObject: the statements before its loop
parseObject(field, schemaPtr, path, expectedType) ==
    LET s == schemaPtr[1]
    IN  IF expectedType # "object" /\ (s.AP = <<>> \/ ~s.AP[1].Allows)
        THEN { Return(<<>>, Error("expected object type or AdditionalProperties allowed for path %s, got %v", path), schemaPtr) }
        ELSE IF /\ Cardinality(DOMAIN s.Extensions) > 0
                /\ xKubernetesPreserveUnknownFields \in DOMAIN s.Extensions
                /\ s.Extensions[xKubernetesPreserveUnknownFields]
        THEN { Return(<<>>, NoError, schemaPtr) }
        ELSE parseObjectFields(field, DOMAIN field, schemaPtr, path, <<>>)

\* the loop of parseObject returning, with an error, the descriptors collected
\* from the fields visited before
parseObjectFieldsPartial(field, remaining, schemaPtr, path, expressionsFields) ==
    IF remaining = {}
    THEN { Return(expressionsFields, NoError, schemaPtr) }
    ELSE UNION {
        LET g == getFieldSchema(schemaPtr[1], fieldName)
        IN  IF g.err # NoError
            THEN { Return(expressionsFields,
                          Error("error getting field schema for path %s: schema not found for field %s",
                                path \o <<".">> \o fieldName),
                          schemaPtr) }
            ELSE UNION {
                IF r.err # NoError
                THEN { Return(expressionsFields, r.err,
                              afterField(schemaPtr, fieldName, g.origin, r.schema)) }
                ELSE parseObjectFields(field, remaining \ {fieldName},
                                       afterField(schemaPtr, fieldName, g.origin, r.schema),
                                       path, expressionsFields \o r.fds)
                : r \in parseResource(field[fieldName], g.schema,
                                      joinPathAndFieldName(path, fieldName)) }
        : fieldName \in remaining }

\* the loop of parseObject with the entries `remaining` still to visit and
\* expressionsFields collected so far
parseObjectFields(field, remaining, schemaPtr, path, expressionsFields) ==
    IF remaining = {}
    THEN { Return(expressionsFields, NoError, schemaPtr) }
    ELSE UNION {
        LET g == getFieldSchema(schemaPtr[1], fieldName)
        IN  IF g.err # NoError
            THEN { Return(<<>>,
                          Error("error getting field schema for path %s: schema not found for field %s",
                                path \o <<".">> \o fieldName),
                          schemaPtr) }
            ELSE UNION {
                IF r.err # NoError
                THEN { Return(<<>>, r.err, afterField(schemaPtr, fieldName, g.origin, r.schema)) }
                ELSE parseObjectFields(field, remaining \ {fieldName},
                                       afterField(schemaPtr, fieldName, g.origin, r.schema),
                                       path, expressionsFields \o r.fds)
                : r \in parseResource(field[fieldName], g.schema,
                                      joinPathAndFieldName(path, fieldName)) }
        : fieldName \in remaining }

\* the loop of parseArray from item i (counted from 0) on
parseArrayItems(field, i, schemaPtr, path, expressionsFields) ==
    IF i >= Len(field)
    THEN { Return(expressionsFields, NoError, schemaPtr) }
    ELSE UNION {
        IF r.err # NoError
        THEN { Return(<<>>, r.err, afterItem(schemaPtr, r.schema)) }
        ELSE parseArrayItems(field, i + 1, afterItem(schemaPtr, r.schema), path,
                             expressionsFields \o r.fds)
        : r \in parseResource(field[i + 1], schemaPtr[1].Items[1].Schema, itemPath(path, i)) }

parseArray(field, schemaPtr, path, expectedType) ==
    IF expectedType # "array"
    THEN { Return(<<>>, Error("expected array type for path %s, got %v", path), schemaPtr) }
    ELSE LET g == getArrayItemSchema(schemaPtr[1], path)
         IN  IF g.err # NoError
             THEN { Return(<<>>, g.err, schemaPtr) }
             ELSE parseArrayItems(field, 0, schemaPtr, path, <<>>)

parseResource(res, schemaPtr, path) ==
    LET v == validateSchema(schemaPtr, path)
    IN  IF v.err # NoError
        THEN { Return(<<>>, v.err, v.schema) }
        ELSE LET expectedType == getExpectedType(v.schema[1])
             IN  CASE res.t = "map"    -> parseObject(res.fields, v.schema, path, expectedType)
                   [] res.t = "array"  -> parseArray(res.items, v.schema, path, expectedType)
                   [] res.t = "string" -> { parseString(res.s, v.schema, path, expectedType) }
                   [] res.t = "nil"    -> { Return(<<>>, NoError, v.schema) }
                   [] OTHER            -> { parseScalarTypes(res, v.schema, path, expectedType) }

(***************************************************************************)
(* The documents and schemas ParseResource is called with.                 *)
(***************************************************************************)
KeyA == <<"a">>
KeyB == <<"b",".","c">>
Keys == {KeyA, KeyB}

Typed(t) == SchemaOf(<<t>>, <<>>, <<>>, EmptyMap, <<>>, EmptyMap)

Allowing(schemaPtr) == <<[Allows |-> TRUE, Schema |-> schemaPtr]>>

\* type "" with additionalProperties: true
AnySchema == SchemaOf(<<"">>, <<>>, Allowing(<<>>), EmptyMap, <<>>, EmptyMap)

\* no type, oneOf: [{type: integer}]
OneOfInteger == SchemaOf(<<>>, << <<"integer">> >>, <<>>, EmptyMap, <<>>, EmptyMap)

\* no type, oneOf: [{required: ...}]
OneOfUntyped == SchemaOf(<<>>, << <<>> >>, <<>>, EmptyMap, <<>>, EmptyMap)

TwoTypes == SchemaOf(<<"string", "integer">>, <<>>, <<>>, EmptyMap, <<>>, EmptyMap)

Preserve(b) == [n \in {xKubernetesPreserveUnknownFields} |-> b]

InnerSchemas == { Typed("string"), Typed("integer"), AnySchema }

LeafSchemas ==
    { Typed(t) : t \in {"string", "integer", "number", "boolean", ""} }
    \cup { AnySchema, EmptySchema, TwoTypes, OneOfInteger, OneOfUntyped }

ObjectSchemas ==
    { SchemaOf(<<"object">>, <<>>, ap, props, <<>>, ext) :
        ap \in { <<>>, Allowing(<<>>), Allowing(<<Typed("string")>>) },
        props \in { EmptyMap, [k \in {KeyA} |-> Typed("string")],
                    [k \in {KeyA} |-> Typed("integer")] },
        ext \in { EmptyMap, Preserve(TRUE), Preserve(FALSE) } }
    \cup { SchemaOf(<<"">>, <<>>, Allowing(<<Typed("string")>>), EmptyMap, <<>>, ext) :
        ext \in { EmptyMap, Preserve(TRUE) } }

ArraySchemas ==
    { SchemaOf(<<"array">>, <<>>, <<>>, EmptyMap, items, EmptyMap) :
        items \in { <<>>, <<[Schema |-> <<>>]>> }
                  \cup { <<[Schema |-> <<t>>]>> : t \in InnerSchemas \cup {OneOfInteger} } }

FieldSchemas == LeafSchemas \cup ObjectSchemas \cup ArraySchemas

Strings == {
    <<>>,
    <<"a">>,
    <<"$","{","a","}">>,
    <<"x","-","$","{","a","}">>,
    <<"$","{","a","}","-","$","{","b","}">>,
    <<"$","{","{","a","}","}">>,
    <<"$","{","a","$","{","b","}","}">>,
    <<"$","{","a">> }

InnerValues == { Scalar("int64"), String(<<"$","{","a","}">>), String(<<"a">>), String(<<"x","-","$","{","a","}">>) }

LeafValues ==
    { NilValue, Scalar("int64"), Scalar("float64"), Scalar("bool") }
    \cup { String(s) : s \in Strings }

ArrayValues == { Array(q) : q \in SeqsUpTo(InnerValues, MaxItems) }

MapValues == UNION { { Map(f) : f \in [K -> InnerValues] } : K \in SUBSET Keys }

FieldValues == LeafValues \cup ArrayValues \cup MapValues

\* A second field beside the first, with the schema of its property.
SecondFields ==
    { [value |-> String(<<"$","{","b","}">>), schema |-> Typed("string")],
      [value |-> Scalar("int64"), schema |-> Typed("string")] }

\* The root schemas for a document whose fields have the schemas in props.
RootSchemas(props) ==
    { <<>>,
      <<SchemaOf(<<"object">>, <<>>, <<>>, props, <<>>, EmptyMap)>>,
      <<SchemaOf(<<"object">>, <<>>, <<>>, props, <<>>, Preserve(TRUE))>>,
      <<SchemaOf(<<"object">>, <<>>, <<>>, EmptyMap, <<>>, EmptyMap)>>,
      <<SchemaOf(<<"object">>, <<>>, Allowing(<<>>), EmptyMap, <<>>, EmptyMap)>>,
      <<SchemaOf(<<"">>, <<>>, Allowing(<<>>), props, <<>>, EmptyMap)>>,
      <<SchemaOf(<<"string">>, <<>>, <<>>, props, <<>>, EmptyMap)>> }
    \cup { <<SchemaOf(<<"object">>, <<>>, Allowing(<<props[k]>>), EmptyMap, <<>>, EmptyMap)>> :
             k \in DOMAIN props }

ParseInit ==
    /\ calls = <<>>
    /\ \E v \in FieldValues, s \in FieldSchemas :
          \/ /\ resource = Map([k \in {KeyA} |-> v])
             /\ schema \in RootSchemas([k \in {KeyA} |-> s])
          \/ \E second \in SecondFields :
                /\ resource = Map([k \in Keys |-> IF k = KeyA THEN v ELSE second.value])
                /\ schema = <<SchemaOf(<<"object">>, <<>>, <<>>,
                                       [k \in Keys |-> IF k = KeyA THEN s ELSE second.schema],
                                       <<>>, EmptyMap)>>

ParseIdle ==
    /\ resource = NilValue
    /\ schema = <<>>
    /\ calls = <<>>

\* ParseResource(resource, schema): one call, with one of the orders in which
\* the maps of the document can be visited.
ParseResource ==
    /\ Len(calls) < MaxCalls
    /\ \E r \in parseResource(resource, schema, <<>>) :
          /\ calls' = Append(calls, [given |-> schema, fds |-> r.fds, err |-> r.err])
          /\ schema' = r.schema
    /\ UNCHANGED resource
    /\ UNCHANGED notParseVars

ParseNext == ParseResource

(***************************************************************************)
(* Paths: the path string of a node is built from the root by              *)
(* joinPathAndFieldName (parseObject) and "%s[%d]" (parseArray).           *)
(***************************************************************************)
FieldStep(name) == [field |-> TRUE, name |-> name, index |-> 0]
IndexStep(i)    == [field |-> FALSE, name |-> <<>>, index |-> i]

\* Field names of a document: any string is a key of a map.
FieldNames == { <<>>, <<"a">>, <<"b",".","c">>, <<"a","[","0","]">>, <<"[","\"","\"","]">>, <<"a","\"","b">> }

PathInit ==
    /\ keysA = <<>>
    /\ pathA = <<>>
    /\ keysB = <<>>
    /\ pathB = <<>>

PathIdle == PathInit

\* parseObject descends into the field fieldName of the node at pathA
DescendFieldA ==
    /\ Len(keysA) < MaxPathLen
    /\ \E fieldName \in FieldNames :
          /\ keysA' = Append(keysA, FieldStep(fieldName))
          /\ pathA' = joinPathAndFieldName(pathA, fieldName)
    /\ UNCHANGED <<keysB, pathB>>
    /\ UNCHANGED notPathVars

\* parseArray descends into item i of the node at pathA (the root is a map)
DescendItemA ==
    /\ Len(keysA) < MaxPathLen
    /\ keysA # <<>>
    /\ \E i \in 0..(MaxItems - 1) :
          /\ keysA' = Append(keysA, IndexStep(i))
          /\ pathA' = itemPath(pathA, i)
    /\ UNCHANGED <<keysB, pathB>>
    /\ UNCHANGED notPathVars

DescendFieldB ==
    /\ Len(keysB) < MaxPathLen
    /\ \E fieldName \in FieldNames :
          /\ keysB' = Append(keysB, FieldStep(fieldName))
          /\ pathB' = joinPathAndFieldName(pathB, fieldName)
    /\ UNCHANGED <<keysA, pathA>>
    /\ UNCHANGED notPathVars

DescendItemB ==
    /\ Len(keysB) < MaxPathLen
    /\ keysB # <<>>
    /\ \E i \in 0..(MaxItems - 1) :
          /\ keysB' = Append(keysB, IndexStep(i))
          /\ pathB' = itemPath(pathB, i)
    /\ UNCHANGED <<keysA, pathA>>
    /\ UNCHANGED notPathVars

PathNext ==
    \/ DescendFieldA
    \/ DescendItemA
    \/ DescendFieldB
    \/ DescendItemB

(***************************************************************************)
(* package cel: DefaultEnvironment and its options                         *)
(***************************************************************************)
\* An EnvOption is the closure the constructor returns: which constructor,
\* and the slice it was given.
WithResourceIDs(ids) == [option |-> "WithResourceIDs", args |-> ids]
WithCustomDeclarations(decls) == [option |-> "WithCustomDeclarations", args |-> decls]

\* &envOptions{}
NewEnvOptions == [resourceIDs |-> <<>>, customDeclarations |-> <<>>]

\* opt(opts)
applyOption(opt, o) ==
    IF opt.option = "WithResourceIDs"
    THEN [o EXCEPT !.resourceIDs = o.resourceIDs \o opt.args]
    ELSE [o EXCEPT !.customDeclarations = o.customDeclarations \o opt.args]

\* cel.Variable(name, cel.AnyType)
Variable(name) == [decl |-> "variable", name |-> name, type |-> "any"]
\* a declaration handed to WithCustomDeclarations
Custom(name) == [decl |-> "custom", name |-> name, type |-> "custom"]
\* ext.Lists(), ext.Strings()
Library(name) == [decl |-> "library", name |-> name, type |-> "library"]

\* the declarations DefaultEnvironment hands to cel.NewEnv
buildDeclarations(o) ==
    <<Library("lists"), Library("strings")>>
    \o [i \in 1..Len(o.resourceIDs) |-> Variable(o.resourceIDs[i])]

EnvOptions ==
    { WithResourceIDs(ids) : ids \in { <<>>, <<"db">>, <<"db", "web">> } }
    \cup { WithCustomDeclarations(d) : d \in { <<Custom("schema")>>,
                                              <<Custom("schema"), Custom("now")>> } }

EnvInit ==
    /\ options \in SeqsUpTo(EnvOptions, MaxOptions)
    /\ optIdx = 1
    /\ opts = NewEnvOptions
    /\ declarations = <<>>
    /\ epc = "options"

EnvIdle ==
    /\ options = <<>>
    /\ optIdx = 1
    /\ opts = NewEnvOptions
    /\ declarations = <<>>
    /\ epc = "idle"

\* one iteration of the loop over options
ApplyOption ==
    /\ epc = "options"
    /\ optIdx <= Len(options)
    /\ opts' = applyOption(options[optIdx], opts)
    /\ optIdx' = optIdx + 1
    /\ UNCHANGED <<options, declarations, epc>>
    /\ UNCHANGED notEnvVars

\* the rest of DefaultEnvironment: the declarations and cel.NewEnv
NewEnv ==
    /\ epc = "options"
    /\ optIdx > Len(options)
    /\ declarations' = buildDeclarations(opts)
    /\ epc' = "done"
    /\ UNCHANGED <<options, optIdx, opts>>
    /\ UNCHANGED notEnvVars

EnvNext ==
    \/ ApplyOption
    \/ NewEnv

(***************************************************************************)
(* package main: the launcher                                              *)
(*                                                                         *)
(* mainPc follows main: the set-up calls that can fail (each ends the      *)
(* process with os.Exit(1)), the start of the two goroutines, and the wait *)
(* for the signal handler's context.  A context is named by where it comes *)
(* from: "background" is context.Background(), "signal" is the context of  *)
(* ctrl.SetupSignalHandler().                                              *)
(***************************************************************************)
\* the calls of main whose error ends the process, and the step after each
FallibleSteps == {"NewSet", "NewManager", "NewBuilder", "Complete",
                  "AddHealthzCheck", "AddReadyzCheck"}

StepAfter(pc) ==
    CASE pc = "NewSet"             -> "NewManager"
      [] pc = "NewManager"         -> "NewBuilder"
      [] pc = "NewBuilder"         -> "Complete"
      [] pc = "Complete"           -> "go dc.Run"
      [] pc = "go dc.Run"          -> "AddHealthzCheck"
      [] pc = "AddHealthzCheck"    -> "AddReadyzCheck"
      [] pc = "AddReadyzCheck"     -> "SetupSignalHandler"
      [] pc = "SetupSignalHandler" -> "go mgr.Start"
      [] pc = "go mgr.Start"       -> "<-ctx.Done()"

ExitStates == {"exit 0", "exit 1", "killed"}

Running == mainPc \notin ExitStates

\* the context main hands to dc.Run
dcRunContext == "background"

\* ctx.Done() is closed: context.Background() is never cancelled
Cancelled(ctx) == ctx = "signal" /\ sigCtx = "cancelled"

\* the kinds the ResourceGroup reconciler registers with the dynamic controller
Kinds == {"WebApp", "Database", "Queue"}

\* a goroutine of a process that ends
Abandon(pc) == IF pc \in {"spawned", "blocked", "running"} THEN "abandoned" ELSE pc

Exit(how) ==
    /\ mainPc' = how
    /\ dcPc' = Abandon(dcPc)
    /\ mgrPc' = Abandon(mgrPc)

MainInit ==
    /\ mainPc = "NewSet"
    /\ sigCtx = "none"
    /\ dcCtx = "none"
    /\ dcPc = "not started"
    /\ mgrPc = "not started"
    /\ kinds = {}
    /\ signals = 0

MainIdle ==
    /\ mainPc = "idle"
    /\ sigCtx = "none"
    /\ dcCtx = "none"
    /\ dcPc = "not started"
    /\ mgrPc = "not started"
    /\ kinds = {}
    /\ signals = 0

\* a set-up call returns without error
SetupStepSucceeds ==
    /\ mainPc \in FallibleSteps
    /\ mainPc' = StepAfter(mainPc)
    /\ UNCHANGED <<sigCtx, dcCtx, dcPc, mgrPc, kinds, signals>>
    /\ UNCHANGED notMainVars

\* a set-up call returns an error: setupLog.Error and os.Exit(1)
SetupStepFails ==
    /\ mainPc \in FallibleSteps
    /\ Exit("exit 1")
    /\ UNCHANGED <<sigCtx, dcCtx, kinds, signals>>
    /\ UNCHANGED notMainVars

\* go dc.Run(context.Background())
StartDynamicController ==
    /\ mainPc = "go dc.Run"
    /\ dcCtx' = dcRunContext
    /\ dcPc' = "spawned"
    /\ mainPc' = StepAfter(mainPc)
    /\ UNCHANGED <<sigCtx, mgrPc, kinds, signals>>
    /\ UNCHANGED notMainVars

\* ctx := ctrl.SetupSignalHandler()
SetupSignalHandler ==
    /\ mainPc = "SetupSignalHandler"
    /\ sigCtx' = "live"
    /\ mainPc' = StepAfter(mainPc)
    /\ UNCHANGED <<dcCtx, dcPc, mgrPc, kinds, signals>>
    /\ UNCHANGED notMainVars

\* go func() { mgr.Start(ctx) ... }()
StartManager ==
    /\ mainPc = "go mgr.Start"
    /\ mgrPc' = "spawned"
    /\ mainPc' = StepAfter(mainPc)
    /\ UNCHANGED <<sigCtx, dcCtx, dcPc, kinds, signals>>
    /\ UNCHANGED notMainVars

\* the goroutine of dc.Run is scheduled: Run blocks until its context is
\* cancelled
DynamicControllerRuns ==
    /\ Running
    /\ dcPc = "spawned"
    /\ ~Cancelled(dcCtx)
    /\ dcPc' = "blocked"
    /\ UNCHANGED <<mainPc, sigCtx, dcCtx, mgrPc, kinds, signals>>
    /\ UNCHANGED notMainVars

\* the goroutine of mgr.Start is scheduled
ManagerRuns ==
    /\ Running
    /\ mgrPc = "spawned"
    /\ mgrPc' = "running"
    /\ UNCHANGED <<mainPc, sigCtx, dcCtx, dcPc, kinds, signals>>
    /\ UNCHANGED notMainVars

\* SIGINT or SIGTERM: before the handler is installed it ends the process;
\* the first one the handler sees cancels its context, the second one makes
\* the handler call os.Exit(1)
Signal ==
    /\ Running
    /\ signals < MaxSignals
    /\ signals' = signals + 1
    /\ CASE sigCtx = "none" -> Exit("killed") /\ UNCHANGED sigCtx
         [] sigCtx = "live" -> sigCtx' = "cancelled" /\ UNCHANGED <<mainPc, dcPc, mgrPc>>
         [] sigCtx = "cancelled" -> Exit("exit 1") /\ UNCHANGED sigCtx
    /\ UNCHANGED <<dcCtx, kinds>>
    /\ UNCHANGED notMainVars

\* the reconciler the manager runs registers the kind of a ResourceGroup with
\* the dynamic controller
RegisterKind ==
    /\ Running
    /\ mgrPc = "running"
    /\ \E k \in Kinds : kinds' = kinds \cup {k}
    /\ UNCHANGED <<mainPc, sigCtx, dcCtx, dcPc, mgrPc, signals>>
    /\ UNCHANGED notMainVars

\* ... and unregisters it when the ResourceGroup is deleted
UnregisterKind ==
    /\ Running
    /\ mgrPc = "running"
    /\ \E k \in kinds : kinds' = kinds \ {k}
    /\ UNCHANGED <<mainPc, sigCtx, dcCtx, dcPc, mgrPc, signals>>
    /\ UNCHANGED notMainVars

\* mgr.Start returns nil once its context is cancelled
ManagerStops ==
    /\ Running
    /\ mgrPc = "running"
    /\ Cancelled("signal")
    /\ mgrPc' = "stopped"
    /\ UNCHANGED <<mainPc, sigCtx, dcCtx, dcPc, kinds, signals>>
    /\ UNCHANGED notMainVars

\* mgr.Start returns an error: setupLog.Error and os.Exit(1)
ManagerFails ==
    /\ Running
    /\ mgrPc = "running"
    /\ Exit("exit 1")
    /\ UNCHANGED <<sigCtx, dcCtx, kinds, signals>>
    /\ UNCHANGED notMainVars

\* <-ctx.Done() returns and main ends, and the process with it
MainReturns ==
    /\ mainPc = "<-ctx.Done()"
    /\ Cancelled("signal")
    /\ Exit("exit 0")
    /\ UNCHANGED <<sigCtx, dcCtx, kinds, signals>>
    /\ UNCHANGED notMainVars

MainNext ==
    \/ SetupStepSucceeds
    \/ SetupStepFails
    \/ StartDynamicController
    \/ SetupSignalHandler
    \/ StartManager
    \/ DynamicControllerRuns
    \/ ManagerRuns
    \/ Signal
    \/ RegisterKind
    \/ UnregisterKind
    \/ ManagerStops
    \/ ManagerFails
    \/ MainReturns

(***************************************************************************)
(* Specifications: one per component, the others at rest.                  *)
(***************************************************************************)
InitNaming == NamingInit /\ ObjectIdle /\ ParseIdle /\ PathIdle /\ EnvIdle /\ MainIdle
InitParse  == ParseInit /\ ObjectIdle /\ NamingIdle /\ PathIdle /\ EnvIdle /\ MainIdle
InitPath   == PathInit /\ ObjectIdle /\ NamingIdle /\ ParseIdle /\ EnvIdle /\ MainIdle
InitEnv    == EnvInit /\ ObjectIdle /\ NamingIdle /\ ParseIdle /\ PathIdle /\ MainIdle
InitMain   == MainInit /\ ObjectIdle /\ NamingIdle /\ ParseIdle /\ PathIdle /\ EnvIdle

InitObject == ObjectInit /\ NamingIdle /\ ParseIdle /\ PathIdle /\ EnvIdle /\ MainIdle

SpecNaming == InitNaming /\ [][NamingNext]_vars
SpecObject == InitObject /\ [][ObjectNext]_vars
SpecParse  == InitParse /\ [][ParseNext]_vars
SpecPath   == InitPath /\ [][PathNext]_vars
SpecEnv    == InitEnv /\ [][EnvNext]_vars
SpecMain   == InitMain /\ [][MainNext]_vars

(***************************************************************************)
(* Properties of the naming validation (SpecNaming).                       *)
(***************************************************************************)
Chars(s) == { s[i] : i \in 1..Len(s) }

\* the naming rules, read off the patterns
IsUpperCamelCase(s) ==
    s # <<>> /\ Head(s) \in Upper /\ Chars(Tail(s)) \subseteq (Lower \cup Upper \cup Digit)

IsLowerCamelCase(s) ==
    s # <<>> /\ Head(s) \in Lower /\ Chars(Tail(s)) \subseteq (Lower \cup Upper \cup Digit)

\* the resource at position i breaks a rule for resource ids
Offends(i) ==
    \/ rgResources[i] \in ListedReservedWords
    \/ ~IsLowerCamelCase(rgResources[i])
    \/ \E j \in 1..(i - 1) : rgResources[j] = rgResources[i]

FirstOffending(i) ==
    /\ i \in 1..Len(rgResources)
    /\ Offends(i)
    /\ \A j \in 1..(i - 1) : ~Offends(j)

\* C1: the validation returns no error if and only if the kind name is
\* UpperCamelCase and every resource id is lowerCamelCase, is not a reserved
\* word and differs from the ids of the other resources.
C1_AcceptsIffNamingConventions ==
    vpc = "done" =>
        ( verr = NoNamingError
          <=> /\ IsUpperCamelCase(rgKind)
              /\ \A i \in 1..Len(rgResources) : ~Offends(i) )

C1_Witness ==
    /\ vpc = "done"
    /\ verr = NoNamingError
    /\ Len(rgResources) = MaxResources

\* C2: with a valid kind name, when the first offending resource has a
\* reserved word w as its id, the error is "id w is a reserved keyword", for
\* each of the 25 reserved words; a reserved id is never reported as a naming
\* or a duplicate error.
C2_ReservedWordReported ==
    /\ Cardinality(ListedReservedWords) = 25
    /\ ListedReservedWords \subseteq ResourceIDs
    /\ vpc = "done" /\ IsUpperCamelCase(rgKind) =>
          /\ \A i \in 1..Len(rgResources) :
                FirstOffending(i) /\ rgResources[i] \in ListedReservedWords =>
                    verr = NamingError("id %s is a reserved keyword in KRO", rgResources[i])
          /\ verr.msg \in {"id %s is not a valid KRO resource id: must be lower camelCase",
                           "found duplicate resource IDs %s"}
                => verr.name \notin ListedReservedWords

C2_Witness ==
    /\ vpc = "done"
    /\ Len(rgResources) = 2
    /\ rgResources[1] = <<"d","b">>
    /\ rgResources[2] = <<"v","e","r","s","i","o","n">>
    /\ verr = NamingError("id %s is a reserved keyword in KRO", <<"v","e","r","s","i","o","n">>)


(***************************************************************************)
(* Properties of the structure validation (SpecObject).                    *)
(***************************************************************************)
\* the text after the last "/" of a text, the whole text when it has none
RECURSIVE AfterSlash(_)
AfterSlash(str) ==
    IF \A i \in 1..Len(str) : str[i] # "/" THEN str
    ELSE AfterSlash(Tail(str))

\* a Kubernetes version: v, a number, and optionally alpha or beta and a number
RECURSIVE LeadingDigits(_)
LeadingDigits(str) ==
    IF str = <<>> \/ Head(str) \notin Digit THEN 0 ELSE 1 + LeadingDigits(Tail(str))

IsKubernetesVersion(str) ==
    /\ str # <<>>
    /\ Head(str) = "v"
    /\ LET n == LeadingDigits(Tail(str))
           after == SubSeq(str, n + 2, Len(str))
           m == IF HasPrefix(after, <<"a","l","p","h","a">>) THEN 5
                ELSE IF HasPrefix(after, <<"b","e","t","a">>) THEN 4 ELSE 0
           number == SubSeq(after, m + 1, Len(after))
       IN  /\ n >= 1
           /\ \/ after = <<>>
              \/ /\ m > 0
                 /\ number # <<>>
                 /\ LeadingDigits(number) = Len(number)

\* the apiVersion of an object is a string group/version with at most one "/"
\* and a version that is empty or a Kubernetes version
GoodAPIVersion(o) ==
    /\ "apiVersion" \in DOMAIN o
    /\ o["apiVersion"].t = "string"
    /\ LET str == o["apiVersion"].s
       IN  /\ Cardinality({ i \in 1..Len(str) : str[i] = "/" }) <= 1
           /\ AfterSlash(str) = <<>> \/ IsKubernetesVersion(AfterSlash(str))

GoodKind(o) == "kind" \in DOMAIN o /\ o["kind"].t = "string"

GoodMetadata(o) == "metadata" \in DOMAIN o /\ o["metadata"].t = "map"

APIVersionErrors ==
    { "apiVersion field not found", "apiVersion field is not a string",
      "apiVersion field is not a valid Kubernetes group version: %w",
      "apiVersion field does not have a valid version: %w" }

KindErrors == { "kind field not found", "kind field is not a string" }

MetadataErrors == { "metadata field not found", "metadata field is not a map" }

\* C12: the object is accepted if and only if its apiVersion is a string
\* group/version with a version that is empty or matches v<n>[(alpha|beta)<n>],
\* its kind is a string and its metadata is a mapping; otherwise the error is
\* about the first of apiVersion, kind, metadata that fails.
C12_AcceptsKubernetesObjects ==
    opc = "done" =>
        /\ oerr = "nil" <=> (GoodAPIVersion(obj) /\ GoodKind(obj) /\ GoodMetadata(obj))
        /\ ~GoodAPIVersion(obj) => oerr \in APIVersionErrors
        /\ GoodAPIVersion(obj) /\ ~GoodKind(obj) => oerr \in KindErrors
        /\ GoodAPIVersion(obj) /\ GoodKind(obj) /\ ~GoodMetadata(obj) => oerr \in MetadataErrors

\* an object whose version, kind and metadata all fail
C12_Witness ==
    /\ opc = "done"
    /\ DOMAIN obj = {"apiVersion", "metadata"}
    /\ obj["apiVersion"] = String(<<"a","p","p","s","/","v","1","b","e","t","a","1","x">>)
    /\ obj["metadata"].t = "string"
    /\ oerr = "apiVersion field does not have a valid version: %w"
(***************************************************************************)
(* Properties of the extractor (SpecParse).                                *)
(*                                                                         *)
(* The nodes of a document are found here by following the schema as a     *)
(* reader of it would: a node is governed by the property schema of its    *)
(* field, else by the additionalProperties schema; an item of a sequence   *)
(* by the items schema.  Only nodes whose ancestors are objects and arrays *)
(* with one declared type are followed.                                    *)
(***************************************************************************)
Node(value, s, path) == [value |-> value, schema |-> s, path |-> path]

HasOneType(schemaPtr) == schemaPtr # <<>> /\ Len(schemaPtr[1].Type) = 1

PreservesUnknownFields(s) ==
    /\ xKubernetesPreserveUnknownFields \in DOMAIN s.Extensions
    /\ s.Extensions[xKubernetesPreserveUnknownFields]

AllowsAdditional(s) == s.AP # <<>> /\ s.AP[1].Allows

\* the type a schema declares: "any" for the open schema without a type name
DeclaredType(s) ==
    IF s.Type = <<"">> /\ AllowsAdditional(s) THEN "any" ELSE s.Type[1]

\* the schema governing field k of an object with schema s (a pointer)
Governing(s, k) ==
    IF k \in DOMAIN s.Properties THEN <<s.Properties[k]>>
    ELSE IF s.AP # <<>> THEN s.AP[1].Schema
    ELSE <<>>

ItemsSchema(s) == IF s.Items = <<>> THEN <<>> ELSE s.Items[1].Schema

RECURSIVE NodesUnder(_, _, _)
NodesUnder(value, s, path) ==
    {Node(value, s, path)} \cup
    IF value.t = "map" /\ s.Type = <<"object">> /\ ~PreservesUnknownFields(s)
    THEN UNION { NodesUnder(value.fields[k], Governing(s, k)[1], joinPathAndFieldName(path, k)) :
                   k \in { f \in DOMAIN value.fields : HasOneType(Governing(s, f)) } }
    ELSE IF value.t = "array" /\ s.Type = <<"array">> /\ HasOneType(ItemsSchema(s))
    THEN UNION { NodesUnder(value.items[i], ItemsSchema(s)[1], itemPath(path, i - 1)) :
                   i \in 1..Len(value.items) }
    ELSE {}

\* the nodes of the document, for a call given this schema
Nodes(given) == IF HasOneType(given) THEN NodesUnder(resource, given[1], <<>>) ELSE {}

IsPrefix(p, q) == Len(p) <= Len(q) /\ SubSeq(q, 1, Len(p)) = p

\* the document has one field and the node is that field, below a plain object
IsOnlyField(given, n) ==
    /\ Cardinality(DOMAIN resource.fields) = 1
    /\ \E k \in DOMAIN resource.fields : n.path = joinPathAndFieldName(<<>>, k)

\* the braces of a text are balanced
RECURSIVE OpenBraces(_, _)
OpenBraces(text, open) ==
    IF text = <<>> THEN open
    ELSE IF open < 0 THEN open
    ELSE OpenBraces(Tail(text), open + (IF Head(text) = "{" THEN 1
                                        ELSE IF Head(text) = "}" THEN -1 ELSE 0))

\* the whole string is ${E} for one expression E
IsSingleExpression(str) ==
    /\ Len(str) >= 3
    /\ SubSeq(str, 1, 2) = <<"$","{">>
    /\ str[Len(str)] = "}"
    /\ LET E == SubSeq(str, 3, Len(str) - 1)
       IN  /\ \A i \in 1..(Len(E) - 1) : SubSeq(E, i, i + 1) # <<"$","{">>
           /\ OpenBraces(E, 0) = 0

\* strings with expressions embedded in a longer text, and these expressions
EmbeddedExpressions(str) ==
    CASE str = <<"x","-","$","{","a","}">>    -> << <<"a">> >>
      [] str = <<"$","{","a","}","-","$","{","b","}">> -> << <<"a">>, <<"b">> >>
      [] OTHER -> <<>>

DescriptorsAt(c, path) == { j \in 1..Len(c.fds) : c.fds[j].Path = path }

\* C3: a string that is one standalone expression, at a field of declared
\* type string, integer, number, boolean, object, array or any, yields exactly
\* one descriptor for the field: standalone, with the declared type, the
\* governing schema, the path and one expression; the field raises no error.
C3_StandaloneKeepsDeclaredType ==
    \A i \in 1..Len(calls) : \A n \in Nodes(calls[i].given) :
        ( /\ n.value.t = "string"
          /\ IsSingleExpression(n.value.s)
          /\ DeclaredType(n.schema) \in {"string", "integer", "number", "boolean",
                                         "object", "array", "any"} )
        => /\ calls[i].err = NoError =>
                /\ Cardinality(DescriptorsAt(calls[i], n.path)) = 1
                /\ \A j \in DescriptorsAt(calls[i], n.path) :
                      /\ calls[i].fds[j].StandaloneExpression
                      /\ calls[i].fds[j].ExpectedType = DeclaredType(n.schema)
                      /\ calls[i].fds[j].ExpectedSchema = <<n.schema>>
                      /\ Len(calls[i].fds[j].Expressions) = 1
           /\ calls[i].err # NoError => calls[i].err.path # n.path
           /\ IsOnlyField(calls[i].given, n) => calls[i].err = NoError

C3_Witness ==
    \E i \in 1..Len(calls) : \E n \in Nodes(calls[i].given) :
        /\ n.value = String(<<"$","{","a","}">>)
        /\ DeclaredType(n.schema) = "integer"
        /\ calls[i].err = NoError
        /\ Len(calls[i].fds) = 1
        /\ calls[i].fds[1].ExpectedType = "integer"
        /\ calls[i].fds[1].StandaloneExpression

\* C4: a string with embedded expressions that is not one standalone
\* expression fails, at a field whose declared type is neither string nor any,
\* with an error citing the path of the field, and no descriptor is returned;
\* at a field of type string or any it yields one descriptor, not standalone,
\* with all the embedded expressions.
C4_EmbeddedNeedsString ==
    \A i \in 1..Len(calls) : \A n \in Nodes(calls[i].given) :
        ( /\ n.value.t = "string"
          /\ EmbeddedExpressions(n.value.s) # <<>>
          /\ ~IsSingleExpression(n.value.s) )
        => IF DeclaredType(n.schema) \notin {"string", "any"}
           THEN /\ calls[i].err # NoError
                /\ calls[i].fds = <<>>
                /\ \/ calls[i].err = Error("expected string type or AdditionalProperties for path %s, got %v", n.path)
                   \/ calls[i].err.path # n.path
                /\ IsOnlyField(calls[i].given, n) => calls[i].err.path = n.path
           ELSE /\ calls[i].err = NoError =>
                     /\ Cardinality(DescriptorsAt(calls[i], n.path)) = 1
                     /\ \A j \in DescriptorsAt(calls[i], n.path) :
                           /\ ~calls[i].fds[j].StandaloneExpression
                           /\ calls[i].fds[j].Expressions = EmbeddedExpressions(n.value.s)
                /\ calls[i].err # NoError => calls[i].err.path # n.path
                /\ IsOnlyField(calls[i].given, n) => calls[i].err = NoError

C4_Witness ==
    \E i \in 1..Len(calls) : \E n \in Nodes(calls[i].given) :
        /\ n.value = String(<<"x","-","$","{","a","}">>)
        /\ DeclaredType(n.schema) = "integer"
        /\ calls[i].fds = <<>>
        /\ calls[i].err = Error("expected string type or AdditionalProperties for path %s, got %v", n.path)

C4_WitnessString ==
    \E i \in 1..Len(calls) : \E n \in Nodes(calls[i].given) :
        /\ n.value = String(<<"$","{","a","}","-","$","{","b","}">>)
        /\ DeclaredType(n.schema) = "string"
        /\ calls[i].err = NoError
        /\ Len(calls[i].fds) = 1
        /\ calls[i].fds[1].Expressions = << <<"a">>, <<"b">> >>

\* C6: a node whose schema yields the expected type any is opaque: whatever
\* the value, the call succeeds and returns no descriptor for the node or
\* anything below it.
C6_AnyIsOpaque ==
    \A i \in 1..Len(calls) : \A n \in Nodes(calls[i].given) :
        DeclaredType(n.schema) = "any" =>
            /\ \A j \in 1..Len(calls[i].fds) : ~IsPrefix(n.path, calls[i].fds[j].Path)
            /\ IsOnlyField(calls[i].given, n) => calls[i].err = NoError

\* a document conforms to a schema
RECURSIVE Conforms(_, _)
Conforms(value, schemaPtr) ==
    /\ HasOneType(schemaPtr)
    /\ LET s == schemaPtr[1]
       IN  \/ value.t = "nil"
           \/ DeclaredType(s) = "any"
           \/ /\ s.Type = <<"object">>
              /\ value.t = "map"
              /\ \/ PreservesUnknownFields(s)
                 \/ \A k \in DOMAIN value.fields :
                       IF k \in DOMAIN s.Properties
                       THEN Conforms(value.fields[k], <<s.Properties[k]>>)
                       ELSE /\ AllowsAdditional(s)
                            /\ \/ s.AP[1].Schema = <<>>
                               \/ Conforms(value.fields[k], s.AP[1].Schema)
           \/ /\ s.Type = <<"array">>
              /\ value.t = "array"
              /\ \A j \in 1..Len(value.items) : Conforms(value.items[j], ItemsSchema(s))
           \/ s.Type = <<"string">> /\ value.t = "string"
           \/ s.Type = <<"integer">> /\ value.t = "int64"
           \/ s.Type = <<"number">> /\ value.t = "float64"
           \/ s.Type = <<"boolean">> /\ value.t = "bool"

\* no string of the document holds "${"
RECURSIVE HasNoExpression(_)
HasNoExpression(value) ==
    /\ ~Contains(value.s, <<"$","{">>)
    /\ \A j \in 1..Len(value.items) : HasNoExpression(value.items[j])
    /\ \A k \in DOMAIN value.fields : HasNoExpression(value.fields[k])

\* C7: a document without expression strings that conforms to its schema
\* yields no descriptor and no error.
C7_NoExpressionNoDescriptor ==
    \A i \in 1..Len(calls) :
        Conforms(resource, calls[i].given) /\ HasNoExpression(resource)
        => calls[i].err = NoError /\ calls[i].fds = <<>>

\* C8: below a mapping whose schema sets x-kubernetes-preserve-unknown-fields
\* to true no descriptor is returned, and nothing inside it makes the call
\* fail.
C8_PreserveUnknownFieldsIsOpaque ==
    \A i \in 1..Len(calls) : \A n \in Nodes(calls[i].given) :
        ( /\ n.value.t = "map"
          /\ PreservesUnknownFields(n.schema)
          /\ (n.schema.Type = <<"object">> \/ AllowsAdditional(n.schema)) )
        => /\ \A j \in 1..Len(calls[i].fds) : ~IsPrefix(n.path, calls[i].fds[j].Path)
           /\ calls[i].err # NoError => ~IsPrefix(n.path, calls[i].err.path)
           /\ (n.path = <<>> \/ IsOnlyField(calls[i].given, n)) => calls[i].err = NoError

C8_Witness ==
    \E i \in 1..Len(calls) : \E n \in Nodes(calls[i].given) :
        /\ n.path # <<>>
        /\ PreservesUnknownFields(n.schema)
        /\ n.value = Map([k \in Keys |-> IF k = KeyA THEN Scalar("int64") ELSE String(<<"$","{","a","}">>)])
        /\ n.schema.Properties = [k \in {KeyA} |-> Typed("string")]
        /\ n.schema.AP = <<>>
        /\ calls[i].err = NoError
        /\ calls[i].fds = <<>>

(***************************************************************************)
(* Properties of the paths (SpecPath).                                     *)
(***************************************************************************)
\* C5: the path string determines the field names and indices leading to a
\* node: different sequences of names and indices have different paths.
C5_PathDeterminesKeys == keysA # keysB => pathA # pathB

(***************************************************************************)
(* Properties of the CEL environment (SpecEnv).                            *)
(***************************************************************************)
Declared == { declarations[i] : i \in 1..Len(declarations) }

\* C9: the environment has a variable of type any for every resource id given
\* through WithResourceIDs and holds every declaration given through
\* WithCustomDeclarations, for any sequence of options.
C9_EveryOptionDeclared ==
    epc = "done" =>
        \A i \in 1..Len(options) : \A j \in 1..Len(options[i].args) :
            IF options[i].option = "WithResourceIDs"
            THEN Variable(options[i].args[j]) \in Declared
            ELSE options[i].args[j] \in Declared

(***************************************************************************)
(* Properties of the launcher (SpecMain).                                  *)
(***************************************************************************)
\* C10: once the signal cancels the context of the signal handler, the
\* context handed to dc.Run is cancelled too: when main has returned from
\* <-ctx.Done(), the dynamic controller has seen its context cancelled.
C10_ShutdownCancelsDynamicController ==
    mainPc = "exit 0" => Cancelled(dcCtx)


(***************************************************************************)
(* Failures of the extractor (SpecParse).                                  *)
(*                                                                         *)
(* The nodes a call visits when nothing fails: the root, the fields of a   *)
(* mapping at a schema that is an object or allows additional properties   *)
(* (unless it preserves unknown fields), and the items of a sequence at an *)
(* array schema.  A node carries the pointer to its schema, which is nil   *)
(* when the schema above has none for it.                                  *)
(***************************************************************************)
\* the type a schema stands for: its one declared type, else the type of the
\* first alternative of its union; <<>> when it has neither
EffectiveType(s) ==
    IF Len(s.Type) = 1 THEN s.Type
    ELSE IF Len(s.OneOf) > 0 THEN s.OneOf[1]
    ELSE <<>>

\* the schema has no usable type: it is nil, or has not exactly one declared
\* type and no oneOf alternative
LacksType(schemaPtr) ==
    \/ schemaPtr = <<>>
    \/ Len(schemaPtr[1].Type) # 1 /\ Len(schemaPtr[1].OneOf) = 0

\* the expected type of a schema with a usable type
ExpectedTypeOf(s) ==
    IF EffectiveType(s) = <<"">> /\ AllowsAdditional(s) THEN "any"
    ELSE EffectiveType(s)[1]

\* the runtime value does not match the declared type
Mismatch(value, s) ==
    LET T == ExpectedTypeOf(s)
    IN  \/ value.t = "map" /\ T # "object" /\ ~AllowsAdditional(s)
        \/ value.t = "array" /\ T # "array"
        \/ value.t = "int64" /\ T \notin {"integer", "any"}
        \/ value.t = "float64" /\ T \notin {"number", "any"}
        \/ value.t = "bool" /\ T \notin {"boolean", "any"}
        \/ value.t = "string" /\ ~Contains(value.s, exprStart) /\ T \notin {"string", "any"}

Defective(n) ==
    \/ LacksType(n.schema)
    \/ EffectiveType(n.schema[1]) # <<>> /\ Mismatch(n.value, n.schema[1])

RECURSIVE VisitedUnder(_, _, _)
VisitedUnder(value, schemaPtr, path) ==
    {Node(value, schemaPtr, path)} \cup
    IF LacksType(schemaPtr) \/ EffectiveType(schemaPtr[1]) = <<>>
    THEN {}
    ELSE LET s == schemaPtr[1]
         IN  IF /\ value.t = "map"
                /\ (ExpectedTypeOf(s) = "object" \/ AllowsAdditional(s))
                /\ ~PreservesUnknownFields(s)
             THEN UNION { VisitedUnder(value.fields[k], Governing(s, k),
                                       joinPathAndFieldName(path, k)) :
                            k \in DOMAIN value.fields }
             ELSE IF value.t = "array" /\ ExpectedTypeOf(s) = "array"
             THEN UNION { VisitedUnder(value.items[i], ItemsSchema(s), itemPath(path, i - 1)) :
                            i \in 1..Len(value.items) }
             ELSE {}

Visited(given) == VisitedUnder(resource, given, <<>>)

\* the first alternative of the union that stands for the type has no type:
\* validateSchema stops at such a node with a run-time panic
Panics(n) ==
    /\ n.schema # <<>>
    /\ Len(n.schema[1].Type) # 1
    /\ Len(n.schema[1].OneOf) > 0
    /\ n.schema[1].OneOf[1] = <<>>

IsPanic(err) == err = Error("panic: index out of range", <<>>)

\* C11: when a node of the document has a nil schema, a schema without one
\* declared type and without a oneOf alternative, or a value that does not
\* match the declared type, the call returns an error (it can only end
\* otherwise by stopping, before it visits that node, at a union whose first
\* alternative has no type); and an error is never returned together with
\* descriptors.
C11_FailFastNoPartialResult ==
    \A i \in 1..Len(calls) :
        /\ (\E n \in Visited(calls[i].given) : Defective(n)) =>
              /\ calls[i].err # NoError
              /\ IsPanic(calls[i].err) => \E m \in Visited(calls[i].given) : Panics(m)
        /\ calls[i].err # NoError => calls[i].fds = <<>>

\* a document whose field b.c holds an expression and whose field a holds an
\* integer at a string schema: the call fails and returns no descriptor
C11_Witness ==
    /\ resource.t = "map"
    /\ DOMAIN resource.fields = Keys
    /\ resource.fields[KeyA] = Scalar("int64")
    /\ resource.fields[KeyB] = String(<<"$","{","b","}">>)
    /\ \E i \in 1..Len(calls) :
          /\ calls[i].given # <<>>
          /\ calls[i].given[1].Properties = [k \in Keys |-> Typed("string")]
          /\ calls[i].err = Error("unexpected type for path %s: %T", KeyA)
          /\ calls[i].fds = <<>>

\* the schema tree behind the pointer once call i has returned
SchemaAfter(i) == IF i < Len(calls) THEN calls[i + 1].given ELSE schema

\* C13: a call of ParseResource, successful or failed, leaves the schema tree
\* it was given unchanged: the root schema and every schema reachable through
\* Properties, Items and AdditionalProperties, unions included.
C13_SchemaIsReadOnly ==
    \A i \in 1..Len(calls) : SchemaAfter(i) = calls[i].given

\* C14: two calls of ParseResource with the same document and the same schema
\* return the same descriptors in the same order, or the same error, whatever
\* order the fields of a mapping are visited in.
C14_ParseResourceIsDeterministic ==
    \A i, j \in 1..Len(calls) :
        calls[i].given = calls[j].given =>
            /\ calls[i].fds = calls[j].fds
            /\ calls[i].err = calls[j].err

\* C15: the expression recorded for a standalone expression string ${E} is E,
\* the text between the opening ${ and the final }, also when E begins or ends
\* with a brace: wrapping it in ${ and } again gives back the field value.
C15_StandaloneExpressionIsVerbatim ==
    \A i \in 1..Len(calls) : \A n \in Nodes(calls[i].given) :
        (n.value.t = "string" /\ IsSingleExpression(n.value.s)) =>
            \A j \in DescriptorsAt(calls[i], n.path) :
                calls[i].fds[j].StandaloneExpression =>
                    /\ calls[i].fds[j].Expressions = << SubSeq(n.value.s, 3, Len(n.value.s) - 1) >>
                    /\ exprStart \o calls[i].fds[j].Expressions[1] \o exprEnd = n.value.s
=============================================================================
